---- MODULE Spec2Model ----
(***************************************************************************)
(* Model of the comparative chart of the INSS vs Mutua dashboard           *)
(* (src/src/visualizations.py, VisualizationManager) and of the            *)
(* configuration it reads (src/config.py).                                 *)
(*                                                                         *)
(* Numbers.  Durations and counts are integers; NaN is a sentinel outside  *)
(* every value set.  Horizontal coordinates are kept in tenths of a unit   *)
(* (so that value - 0.5 is 10*value - 5).  Heights and vertical positions   *)
(* are exact fractions <<num, den>> in tenths, and <<0, 0>> is the          *)
(* floating point NaN (the result of arithmetic on a missing count).       *)
(*                                                                         *)
(* The axes object is modelled by the sequence `ax` of the calls made on   *)
(* it, in call order.                                                      *)
(***************************************************************************)
EXTENDS Integers, Sequences, FiniteSets, TLC

VARIABLES call, pc, ax, ret, idx, heights, x_min, x_max, msgs, exc, data

vars == <<call, pc, ax, ret, idx, heights, x_min, x_max, msgs, exc, data>>

----------------------------------------------------------------------------
(* Bounds of the model *)

MaxRows == 2
MaxVal == 2
MaxCount == 3
MaxDiag == 3
MaxFnRows == 4

----------------------------------------------------------------------------
(* Configuration: src/config.py, in tenths where fractional *)

MIN_BAR_HEIGHT == 2
MAX_BAR_HEIGHT == 6
LEFT_MARGIN == 40
RIGHT_MARGIN == 40

light_gray == "lightgray"
dark_gray == "dimgray"
no_variation == "sin variacion"

NaN == -1000

percentile_cols == <<"Minmin", "P20min", "P40min", "P60min", "P80min", "P99min">>

ColCount == "Count Episodios"
ColDiag == "Diagnostico"
ColFlag == "percentiles_iguales"
ColStd == "Durestd Inss min"
ColOpt == "Duropt Inss min"
ColCaso == "Caso"

Range(s) == {s[i] : i \in DOMAIN s}

AllColumns == Range(percentile_cols) \cup {ColCount, ColDiag, ColFlag, ColStd, ColOpt, ColCaso}

----------------------------------------------------------------------------
(* Arithmetic helpers *)

notna(v) == v # NaN

SetMax(S) == CHOOSE m \in S : \A v \in S : v <= m
SetMin(S) == CHOOSE m \in S : \A v \in S : m <= v

\* Fractions <<num, den>> with den >= 0; den = 0 is NaN.
FracNaN == <<0, 0>>
IsNaNFrac(f) == f[2] = 0
FracLe(f, g) == ~IsNaNFrac(f) /\ ~IsNaNFrac(g) /\ f[1] * g[2] <= g[1] * f[2]
FracLt(f, g) == ~IsNaNFrac(f) /\ ~IsNaNFrac(g) /\ f[1] * g[2] < g[1] * f[2]
FracEq(f, g) == ~IsNaNFrac(f) /\ ~IsNaNFrac(g) /\ f[1] * g[2] = g[1] * f[2]

RECURSIVE Concat(_)
Concat(ss) == IF ss = <<>> THEN <<>> ELSE Head(ss) \o Concat(Tail(ss))

----------------------------------------------------------------------------
(* Tables: a DataFrame is its set of columns and its sequence of rows;     *)
(* a row is a function from the columns to cells.                          *)

DfEmpty_NoColumns(df) == df.columns = {}

DfEmpty(df) == Len(df.rows) = 0 \/ df.columns = {}

MkRow(p, flag, count, diag, std, opt, caso) ==
    [c \in AllColumns |->
        CASE c = ColCount -> count
          [] c = ColDiag -> diag
          [] c = ColFlag -> flag
          [] c = ColStd -> std
          [] c = ColOpt -> opt
          [] c = ColCaso -> caso
          [] OTHER -> p[CHOOSE k \in 1..6 : percentile_cols[k] = c]]

Project(row, cols) == [c \in cols |-> row[c]]

MkDf(cols, rows) == [columns |-> cols, rows |-> [i \in 1..Len(rows) |-> Project(rows[i], cols)]]

----------------------------------------------------------------------------
(* _calculate_bar_heights *)

Midpoint == <<MIN_BAR_HEIGHT + MAX_BAR_HEIGHT, 2>>

\* counts.max() / counts.min(): NaN entries are skipped, NaN when none is left
SeriesMax(values) == IF Range(values) \ {NaN} = {} THEN NaN ELSE SetMax(Range(values) \ {NaN})
SeriesMin(values) == IF Range(values) \ {NaN} = {} THEN NaN ELSE SetMin(Range(values) \ {NaN})

\* arithmetic on NaN is NaN
Sub(a, b) == IF a = NaN \/ b = NaN THEN NaN ELSE a - b

RangeIsZero(range_counts) == range_counts # NaN /\ range_counts = 0

ScaledHeight_Inverted(count, count_min, range_counts) ==
    IF count = NaN \/ range_counts = NaN THEN FracNaN
    ELSE <<MIN_BAR_HEIGHT * range_counts
             + (range_counts - (count - count_min)) * (MAX_BAR_HEIGHT - MIN_BAR_HEIGHT),
           range_counts>>

ScaledHeight(count, count_min, range_counts) ==
    IF count = NaN \/ range_counts = NaN THEN FracNaN
    ELSE <<MIN_BAR_HEIGHT * range_counts
             + (count - count_min) * (MAX_BAR_HEIGHT - MIN_BAR_HEIGHT), range_counts>>

calculate_bar_heights(df) ==
    IF ColCount \notin df.columns
    THEN [i \in 1..Len(df.rows) |-> Midpoint]
    ELSE LET counts == [i \in 1..Len(df.rows) |-> df.rows[i][ColCount]]
             range_counts == Sub(SeriesMax(counts), SeriesMin(counts))
         IN  IF RangeIsZero(range_counts)
             THEN [i \in 1..Len(counts) |-> Midpoint]
             ELSE [i \in 1..Len(counts) |->
                      ScaledHeight(counts[i], SeriesMin(counts), range_counts)]

----------------------------------------------------------------------------
(* _create_percentile_bars *)

Named(c) == <<c>>
CmapAt(num, den) == <<"RdYlGn_r", num, den>>

RECURSIVE PresentValues(_, _)
PresentValues(row, cols) ==
    IF cols = <<>> THEN <<>>
    ELSE (IF notna(row[Head(cols)]) THEN <<row[Head(cols)]>> ELSE <<>>)
         \o PresentValues(row, Tail(cols))

Drawable_OneValue(percentiles) == ~(Len(percentiles) < 1)

Drawable(percentiles) == ~(Len(percentiles) < 2)

\* as if the marker were decided by the values of the record
HasNoVariation_ByValues(row) ==
    Cardinality(Range(PresentValues(row, percentile_cols))) = 1

HasNoVariation(row) == ColFlag \in DOMAIN row /\ row[ColFlag] = TRUE

NoVariationBar_NotCentred(percentiles, i, height) ==
    << [kind |-> "barh", y |-> i, left |-> 10 * percentiles[1], width |-> 10,
        height |-> height, color |-> Named(light_gray)],
       [kind |-> "text", y |-> i, x |-> 10 * (percentiles[1] + 1), s |-> no_variation,
        ha |-> "left", color |-> Named(dark_gray)] >>

NoVariationBar(percentiles, i, height) ==
    << [kind |-> "barh", y |-> i, left |-> 10 * percentiles[1] - 5, width |-> 10,
        height |-> height, color |-> Named(light_gray)],
       [kind |-> "text", y |-> i, x |-> 10 * (percentiles[1] + 1), s |-> no_variation,
        ha |-> "left", color |-> Named(dark_gray)] >>

WidthDrawn_Ties(width) == width >= 0

WidthDrawn(width) == width > 0

\* as if the colour were normalised over the whole chart
MidColor_Global(a, b, vmin, vmax) == CmapAt(a + b - 2 * x_min, 2 * (x_max - x_min))

\* cmap(norm((a + b) / 2)) with norm = Normalize(vmin, vmax)
MidColor(a, b, vmin, vmax) == CmapAt(a + b - 2 * vmin, 2 * (vmax - vmin))

\* as if every rectangle were one unit wide
VariationBars_UnitWidth(percentiles, i, height) ==
    LET vmin == SetMin(Range(percentiles))
        vmax == SetMax(Range(percentiles))
        Bar(k) == IF WidthDrawn(percentiles[k + 1] - percentiles[k])
                  THEN << [kind |-> "barh", y |-> i, left |-> 10 * percentiles[k],
                           width |-> 10,
                           height |-> height,
                           color |-> MidColor(percentiles[k], percentiles[k + 1], vmin, vmax)] >>
                  ELSE <<>>
    IN  Concat([k \in 1..(Len(percentiles) - 1) |-> Bar(k)])

VariationBars(percentiles, i, height) ==
    LET vmin == SetMin(Range(percentiles))
        vmax == SetMax(Range(percentiles))
        Bar(k) == IF WidthDrawn(percentiles[k + 1] - percentiles[k])
                  THEN << [kind |-> "barh", y |-> i, left |-> 10 * percentiles[k],
                           width |-> 10 * (percentiles[k + 1] - percentiles[k]),
                           height |-> height,
                           color |-> MidColor(percentiles[k], percentiles[k + 1], vmin, vmax)] >>
                  ELSE <<>>
    IN  Concat([k \in 1..(Len(percentiles) - 1) |-> Bar(k)])

create_percentile_bars_NextSlot(row, i, height, available_cols) ==
    LET percentiles == PresentValues(row, available_cols)
    IN  IF ~Drawable(percentiles) THEN <<>>
        ELSE IF HasNoVariation(row) THEN NoVariationBar(percentiles, i + 1, height)
        ELSE VariationBars(percentiles, i + 1, height)

create_percentile_bars(row, i, height, available_cols) ==
    LET percentiles == PresentValues(row, available_cols)
    IN  IF ~Drawable(percentiles) THEN <<>>
        ELSE IF HasNoVariation(row) THEN NoVariationBar(percentiles, i, height)
        ELSE VariationBars(percentiles, i, height)

----------------------------------------------------------------------------
(* _add_inss_lines *)

\* i - height/2 and i + height/2, in tenths
YBelow_FullHeight(i, height) == <<10 * i * height[2] - height[1], height[2]>>

YBelow(i, height) == <<20 * i * height[2] - height[1], 2 * height[2]>>
YAbove(i, height) == <<20 * i * height[2] + height[1], 2 * height[2]>>

add_inss_lines(row, i, height) ==
    (IF ColStd \in DOMAIN row /\ notna(row[ColStd])
     THEN << [kind |-> "plot_line", y |-> i, x |-> 10 * row[ColStd],
              y0 |-> YBelow(i, height), y1 |-> YAbove(i, height),
              color |-> Named("black")] >>
     ELSE <<>>)
    \o
    (IF ColOpt \in DOMAIN row /\ notna(row[ColOpt])
     THEN << [kind |-> "plot_point", y |-> i, x |-> 10 * row[ColOpt],
              color |-> Named("blue")] >>
     ELSE <<>>)

----------------------------------------------------------------------------
(* _add_labels *)

\* the null cell of a text column, and what str() makes of a cell
NaS == "<NA>"
str(v) == IF v = NaS THEN "nan" ELSE v

CasoText(row) ==
    LET caso_text == IF ColCaso \in DOMAIN row THEN str(row[ColCaso]) ELSE ""
    IN  IF ColCount \in DOMAIN row /\ notna(row[ColCount])
        THEN (IF caso_text # ""
              THEN caso_text \o " (" \o ToString(row[ColCount]) \o ")"
              ELSE "(" \o ToString(row[ColCount]) \o ")")
        ELSE caso_text

add_labels(row, i, xmin, xmax) ==
    (IF ColDiag \in DOMAIN row
     THEN << [kind |-> "text", y |-> i, x |-> 10 * (xmin - LEFT_MARGIN + 2),
              s |-> row[ColDiag], ha |-> "right", color |-> Named("black")] >>
     ELSE <<>>)
    \o
    (IF CasoText(row) # ""
     THEN << [kind |-> "text", y |-> i, x |-> 10 * (xmax + 5),
              s |-> CasoText(row), ha |-> "left", color |-> Named("black")] >>
     ELSE <<>>)

----------------------------------------------------------------------------
(* _add_diagnosis_shading *)

\* labels.ne(labels.shift()).cumsum()
\* labels.ne(labels.shift()): a null label differs from every label, null included
LabelChanges(labels, k) == k = 1 \/ labels[k] = NaS \/ labels[k] # labels[k - 1]

Bounds(labels) ==
    [i \in 1..Len(labels) |-> Cardinality({k \in 1..i : LabelChanges(labels, k)})]

\* df.groupby(bounds).size(): one entry per key, keys ascending
Sizes(bounds) ==
    LET keys == Range(bounds)
        Key(j) == CHOOSE k \in keys : Cardinality({m \in keys : m < k}) = j - 1
    IN  [j \in 1..Cardinality(keys) |-> Cardinality({i \in DOMAIN bounds : bounds[i] = Key(j)})]

RECURSIVE SumTo(_, _)
SumTo(sizes, j) == IF j = 0 THEN 0 ELSE sizes[j] + SumTo(sizes, j - 1)

Starts_NoOffset(sizes) == [j \in 1..Len(sizes) |-> SumTo(sizes, j)]

Starts(sizes) == [j \in 1..Len(sizes) |-> SumTo(sizes, j) - sizes[j]]
Ends(sizes) == [j \in 1..Len(sizes) |-> SumTo(sizes, j)]

BandColor_Swapped(i) == IF i % 2 = 1 THEN light_gray ELSE "white"

BandColor(i) == IF i % 2 = 0 THEN light_gray ELSE "white"

HasSeparator(i) == i # 0

\* one iteration of the loop, i is the 0-based enumerate index
Band(i, start, end) ==
    << [kind |-> "axhspan", ymin |-> 10 * start - 2, ymax |-> 10 * end - 2,
        color |-> Named(BandColor(i)), alpha |-> 2] >>
    \o
    (IF HasSeparator(i)
     THEN << [kind |-> "axhline", ypos |-> 10 * start - 2, color |-> Named("gray")] >>
     ELSE <<>>)

add_diagnosis_shading(df) ==
    IF ColDiag \notin df.columns THEN <<>>
    ELSE LET labels == [i \in 1..Len(df.rows) |-> df.rows[i][ColDiag]]
             sizes == Sizes(Bounds(labels))
         IN  Concat([j \in 1..Len(sizes) |->
                        Band(j - 1, Starts(sizes)[j], Ends(sizes)[j])])

----------------------------------------------------------------------------
(* _customize_chart, _add_legend *)

customize_chart ==
    << [kind |-> "set_yticks"], [kind |-> "set_xlabel"], [kind |-> "set_title"],
       [kind |-> "grid"], [kind |-> "set_axisbelow"] >>

add_legend ==
    << [kind |-> "legend",
        handles |-> << CmapAt(0, 10), CmapAt(2, 10), CmapAt(4, 10), CmapAt(6, 10),
                       CmapAt(8, 10), CmapAt(10, 10), Named(light_gray),
                       Named("black"), Named("blue") >>] >>

----------------------------------------------------------------------------
(* Inputs *)

SeqsUpTo(S, n) == UNION {[1..k -> S] : k \in 0..n}

Values == {NaN} \cup (0..MaxVal)
Counts == {NaN} \cup (1..MaxCount)
Diagnoses == {"D" \o ToString(k) : k \in 1..MaxDiag}

NoValues == <<NaN, NaN, NaN, NaN, NaN, NaN>>

\* Rows of the tables given to create_comparative_chart: a regular record, a
\* constant one, one with a single value, one with no value and no count, one
\* with a decreasing pair, a tie and a gap, and a second regular one.
SampleRows ==
    { MkRow(<<1, 2, 3, 4, 5, 6>>, FALSE, 3, "D1", 4, 3, "c1"),
      MkRow(<<2, 2, 2, 2, 2, 2>>, TRUE, 1, "D1", NaN, 9, "c2"),
      MkRow(<<NaN, NaN, 5, NaN, NaN, NaN>>, TRUE, 2, "D2", 5, 6, "c3"),
      MkRow(NoValues, FALSE, NaN, "D2", NaN, NaN, "c4"),
      MkRow(<<3, 1, 4, 4, NaN, 7>>, FALSE, 2, "D2", 4, 4, "c5"),
      MkRow(<<0, 2, 4, 6, 8, 9>>, FALSE, 1, "D1", 3, NaN, "c6") }

ColumnSets ==
    { AllColumns,
      AllColumns \ Range(percentile_cols),
      AllColumns \ {ColCount},
      AllColumns \ {ColDiag},
      AllColumns \ {ColFlag},
      {"Minmin", "P99min", ColDiag},
      {} }

ChartInputs == {MkDf(cols, rows) : cols \in ColumnSets, rows \in SeqsUpTo(SampleRows, MaxRows)}

----------------------------------------------------------------------------
(* create_comparative_chart, one action per statement of the try block *)

Chart == "create_comparative_chart"

\* no table is being worked on
NoFrame == [columns |-> {}, rows |-> <<>>]

Idle ==
    /\ pc = "call"
    /\ ax = <<>>
    /\ ret = "pending"
    /\ idx = 0
    /\ heights = <<>>
    /\ x_min = NaN
    /\ x_max = NaN
    /\ msgs = <<>>
    /\ exc = "none"
    /\ data = NoFrame

Init ==
    /\ \E df \in ChartInputs : call = [fn |-> Chart, df |-> df]
    /\ Idle

available_cols(df) == SelectSeq(percentile_cols, LAMBDA col : col \in df.columns)

\* df[available_cols].min().min() and .max().max(): NaN cells are skipped
AllValues(df, cols) == {df.rows[i][cols[k]] : i \in 1..Len(df.rows), k \in 1..Len(cols)} \ {NaN}
FrameMin(df, cols) == IF AllValues(df, cols) = {} THEN NaN ELSE SetMin(AllValues(df, cols))
FrameMax_WithDurations(df, cols) ==
    LET durations == {df.rows[i][c] : i \in 1..Len(df.rows), c \in {ColStd, ColOpt} \cap df.columns}
        all == (AllValues(df, cols) \cup durations) \ {NaN}
    IN  IF all = {} THEN NaN ELSE SetMax(all)

FrameMax(df, cols) == IF AllValues(df, cols) = {} THEN NaN ELSE SetMax(AllValues(df, cols))

\* except Exception: logger.error, st.error, return None
Except_ReturnsFig(kind) ==
    /\ msgs' = Append(msgs, [level |-> "error", text |-> "Error al crear visualizacion"])
    /\ ret' = "fig"
    /\ pc' = "done"
    /\ exc' = kind

Except(kind) ==
    /\ msgs' = Append(msgs, [level |-> "error", text |-> "Error al crear visualizacion"])
    /\ ret' = "None"
    /\ pc' = "done"
    /\ exc' = kind

CheckEmpty ==
    /\ call.fn = Chart /\ pc = "call"
    /\ IF DfEmpty(call.df)
       THEN /\ msgs' = Append(msgs, [level |-> "warning", text |-> "No hay datos para visualizar"])
            /\ ret' = "None"
            /\ pc' = "done"
       ELSE /\ pc' = "subplots"
            /\ UNCHANGED <<msgs, ret>>
    /\ UNCHANGED <<data, call, ax, idx, heights, x_min, x_max, exc>>

Subplots ==
    /\ call.fn = Chart /\ pc = "subplots"
    /\ pc' = "columns"
    /\ UNCHANGED <<data, call, ax, ret, idx, heights, x_min, x_max, msgs, exc>>

NoPercentileColumns_Never(cols) == FALSE

\* if not available_cols
NoPercentileColumns(cols) == cols = <<>>

CheckColumns ==
    /\ call.fn = Chart /\ pc = "columns"
    /\ IF NoPercentileColumns(available_cols(call.df))
       THEN /\ msgs' = Append(msgs, [level |-> "error",
                                     text |-> "No se encontraron columnas de percentiles"])
            /\ ret' = "None"
            /\ pc' = "done"
       ELSE /\ pc' = "limits"
            /\ UNCHANGED <<msgs, ret>>
    /\ UNCHANGED <<data, call, ax, idx, heights, x_min, x_max, exc>>

\* ax.set_xlim raises ValueError("Axis limits cannot be NaN or Inf")
LimitsAccepted(lo, hi) == lo # NaN /\ hi # NaN

SetLimits ==
    /\ call.fn = Chart /\ pc = "limits"
    /\ x_min' = FrameMin(call.df, available_cols(call.df))
    /\ x_max' = FrameMax(call.df, available_cols(call.df))
    /\ IF LimitsAccepted(x_min', x_max')
       THEN /\ ax' = Append(ax, [kind |-> "set_xlim", left |-> 10 * (x_min' - LEFT_MARGIN),
                                 right |-> 10 * (x_max' + RIGHT_MARGIN)])
            /\ pc' = "heights"
            /\ UNCHANGED <<msgs, ret, exc>>
       ELSE /\ Except("ValueError")
            /\ UNCHANGED ax
    /\ UNCHANGED <<data, call, idx, heights>>

CalculateHeights ==
    /\ call.fn = Chart /\ pc = "heights"
    /\ heights' = calculate_bar_heights(call.df)
    /\ idx' = 0
    /\ pc' = "bars"
    /\ UNCHANGED <<data, call, ax, ret, x_min, x_max, msgs, exc>>

CreateBars ==
    /\ call.fn = Chart /\ pc = "bars"
    /\ ax' = ax \o create_percentile_bars(call.df.rows[idx + 1], idx, heights[idx + 1],
                                          available_cols(call.df))
    /\ pc' = "inss"
    /\ UNCHANGED <<data, call, ret, idx, heights, x_min, x_max, msgs, exc>>

AddInssLines ==
    /\ call.fn = Chart /\ pc = "inss"
    /\ ax' = ax \o add_inss_lines(call.df.rows[idx + 1], idx, heights[idx + 1])
    /\ pc' = "labels"
    /\ UNCHANGED <<data, call, ret, idx, heights, x_min, x_max, msgs, exc>>

NextRecord_Break(i, n) == "invert"

NextRecord(i, n) == IF i + 1 < n THEN "bars" ELSE "invert"

AddLabels ==
    /\ call.fn = Chart /\ pc = "labels"
    /\ ax' = ax \o add_labels(call.df.rows[idx + 1], idx, x_min, x_max)
    /\ pc' = NextRecord(idx, Len(call.df.rows))
    /\ idx' = IF idx + 1 < Len(call.df.rows) THEN idx + 1 ELSE idx
    /\ UNCHANGED <<data, call, ret, heights, x_min, x_max, msgs, exc>>

InvertYAxis ==
    /\ call.fn = Chart /\ pc = "invert"
    /\ ax' = Append(ax, [kind |-> "invert_yaxis"])
    /\ pc' = "shading"
    /\ UNCHANGED <<data, call, ret, idx, heights, x_min, x_max, msgs, exc>>

\* as if the run ids were stored in the caller's table (df['bounds'] = bounds)
AddDiagnosisShading_StoresBounds ==
    /\ call.fn = Chart /\ pc = "shading"
    /\ ax' = ax \o add_diagnosis_shading(call.df)
    /\ pc' = "customize"
    /\ call' = [call EXCEPT !.df =
                   [columns |-> @.columns \cup {"bounds"},
                    rows |-> [i \in DOMAIN @.rows |->
                                 [c \in @.columns \cup {"bounds"} |->
                                     IF c = "bounds" THEN i ELSE @.rows[i][c]]]]]
    /\ UNCHANGED <<data, ret, idx, heights, x_min, x_max, msgs, exc>>

AddDiagnosisShading ==
    /\ call.fn = Chart /\ pc = "shading"
    /\ ax' = ax \o add_diagnosis_shading(call.df)
    /\ pc' = "customize"
    /\ UNCHANGED <<data, call, ret, idx, heights, x_min, x_max, msgs, exc>>

CustomizeChart ==
    /\ call.fn = Chart /\ pc = "customize"
    /\ ax' = ax \o customize_chart
    /\ pc' = "legend"
    /\ UNCHANGED <<data, call, ret, idx, heights, x_min, x_max, msgs, exc>>

AddLegend ==
    /\ call.fn = Chart /\ pc = "legend"
    /\ ax' = ax \o add_legend
    /\ pc' = "layout"
    /\ UNCHANGED <<data, call, ret, idx, heights, x_min, x_max, msgs, exc>>

ReturnFig ==
    /\ call.fn = Chart /\ pc = "layout"
    /\ ret' = "fig"
    /\ pc' = "done"
    /\ UNCHANGED <<data, call, ax, idx, heights, x_min, x_max, msgs, exc>>

\* any statement of the try block may raise; the handler runs once
Raise ==
    /\ call.fn = Chart /\ pc # "done"
    /\ Except("unexpected")
    /\ UNCHANGED <<data, call, ax, idx, heights, x_min, x_max>>

Next ==
    \/ CheckEmpty
    \/ Subplots
    \/ CheckColumns
    \/ SetLimits
    \/ CalculateHeights
    \/ CreateBars
    \/ AddInssLines
    \/ AddLabels
    \/ InvertYAxis
    \/ AddDiagnosisShading
    \/ CustomizeChart
    \/ AddLegend
    \/ ReturnFig
    \/ Raise

Spec == Init /\ [][Next]_vars

----------------------------------------------------------------------------
(* The helpers on their own: the input is drawn by the initial state and    *)
(* one action applies the helper to it.                                     *)

\* rows for _create_percentile_bars: every combination of six optional values,
\* with the flag true, false or not a field of the row
\* six percentiles that rise all the way, with and without a missing one
Staircases ==
    { <<1, 2, 3, 4, 5, 6>>, <<0, 2, 4, 6, 8, 9>>, <<1, 2, NaN, 4, 5, 6>>,
      <<NaN, 1, 1, 3, NaN, 7>> }

BarRows ==
    {Project(MkRow(p, flag, 1, "D1", NaN, NaN, "c1"), cols) :
        p \in [1..6 -> Values] \cup Staircases, flag \in BOOLEAN,
        cols \in {AllColumns, AllColumns \ {ColFlag}}}

InitBars ==
    /\ \E row \in BarRows, i \in 0..(MaxRows - 1) :
          call = [fn |-> "_create_percentile_bars", row |-> row, idx |-> i,
                  height |-> Midpoint, available_cols |-> percentile_cols]
    /\ Idle

RunCreatePercentileBars ==
    /\ call.fn = "_create_percentile_bars" /\ pc = "call"
    /\ ax' = ax \o create_percentile_bars(call.row, call.idx, call.height, call.available_cols)
    /\ ret' = "returned"
    /\ pc' = "done"
    /\ UNCHANGED <<data, call, idx, heights, x_min, x_max, msgs, exc>>

NextBars == RunCreatePercentileBars

SpecBars == InitBars /\ [][NextBars]_vars

\* rows for _add_labels: a case id that is a text, empty or null, any count,
\* each column there or not
LabelRows ==
    {Project(MkRow(NoValues, FALSE, count, "D1", NaN, NaN, caso), cols) :
        caso \in {"c1", "", NaS}, count \in Counts,
        cols \in {AllColumns, AllColumns \ {ColCaso}, AllColumns \ {ColCount},
                  AllColumns \ {ColCaso, ColCount}, AllColumns \ {ColDiag}}}

InitLabels ==
    /\ \E row \in LabelRows, i \in 0..(MaxRows - 1), hi \in 0..MaxVal :
          call = [fn |-> "_add_labels", row |-> row, idx |-> i, x_min |-> 0, x_max |-> hi]
    /\ Idle

RunAddLabels ==
    /\ call.fn = "_add_labels" /\ pc = "call"
    /\ ax' = ax \o add_labels(call.row, call.idx, call.x_min, call.x_max)
    /\ ret' = "returned"
    /\ pc' = "done"
    /\ UNCHANGED <<data, call, idx, heights, x_min, x_max, msgs, exc>>

NextLabels == RunAddLabels

SpecLabels == InitLabels /\ [][NextLabels]_vars

\* tables for _calculate_bar_heights: any counts, with or without the column
CountRow(count) == MkRow(<<1, 2, 3, 4, 5, 6>>, FALSE, count, "D1", NaN, NaN, "c1")

HeightInputs ==
    {MkDf(cols, [i \in DOMAIN counts |-> CountRow(counts[i])]) :
        counts \in SeqsUpTo(Counts, MaxFnRows),
        cols \in {AllColumns, AllColumns \ {ColCount}}}

InitHeights ==
    /\ \E df \in HeightInputs : call = [fn |-> "_calculate_bar_heights", df |-> df]
    /\ Idle

RunCalculateBarHeights ==
    /\ call.fn = "_calculate_bar_heights" /\ pc = "call"
    /\ heights' = calculate_bar_heights(call.df)
    /\ ret' = "returned"
    /\ pc' = "done"
    /\ UNCHANGED <<data, call, ax, idx, x_min, x_max, msgs, exc>>

NextHeights == RunCalculateBarHeights

SpecHeights == InitHeights /\ [][NextHeights]_vars

\* tables for _add_diagnosis_shading: any diagnosis sequence, sorted or not
DiagRow(diag) == MkRow(<<1, 2, 3, 4, 5, 6>>, FALSE, 1, diag, NaN, NaN, "c1")

ShadingInputs ==
    {MkDf(cols, [i \in DOMAIN diags |-> DiagRow(diags[i])]) :
        diags \in SeqsUpTo(Diagnoses, MaxFnRows),
        cols \in {AllColumns, AllColumns \ {ColDiag}}}

InitShading ==
    /\ \E df \in ShadingInputs : call = [fn |-> "_add_diagnosis_shading", df |-> df]
    /\ Idle

RunAddDiagnosisShading ==
    /\ call.fn = "_add_diagnosis_shading" /\ pc = "call"
    /\ ax' = ax \o add_diagnosis_shading(call.df)
    /\ ret' = "returned"
    /\ pc' = "done"
    /\ UNCHANGED <<data, call, idx, heights, x_min, x_max, msgs, exc>>

NextShading == RunAddDiagnosisShading

SpecShading == InitShading /\ [][NextShading]_vars

----------------------------------------------------------------------------
(* Properties of _create_percentile_bars (SpecBars)                          *)

IsBar(a) == a.kind = "barh"
IsText(a) == a.kind = "text"

Rectangles == SelectSeq(ax, IsBar)
Texts == SelectSeq(ax, IsText)

CallPercentiles == PresentValues(call.row, call.available_cols)

IncreasingPairs(p) == {k \in 1..(Len(p) - 1) : p[k + 1] > p[k]}

\* C1: no emitted rectangle has its right edge at or left of its left edge; on
\* the variation path the rectangles are exactly the adjacent present pairs
\* that increase (ties and decreasing pairs give nothing); the no-variation
\* rectangle has width 1.
C1_NoEmptyRectangle ==
    pc = "done" =>
        /\ \A k \in DOMAIN Rectangles :
              Rectangles[k].left + Rectangles[k].width > Rectangles[k].left
        /\ (Len(CallPercentiles) >= 2 /\ ~HasNoVariation(call.row)) =>
              /\ Len(Rectangles) = Cardinality(IncreasingPairs(CallPercentiles))
              /\ \A k \in DOMAIN Rectangles :
                    \E j \in IncreasingPairs(CallPercentiles) :
                       /\ Rectangles[k].left = 10 * CallPercentiles[j]
                       /\ Rectangles[k].left + Rectangles[k].width = 10 * CallPercentiles[j + 1]
        /\ (Len(CallPercentiles) >= 2 /\ HasNoVariation(call.row)) =>
              \A k \in DOMAIN Rectangles : Rectangles[k].width = 10

C1_Witness ==
    /\ pc = "done"
    /\ ~HasNoVariation(call.row)
    /\ \E k \in 1..(Len(CallPercentiles) - 1) : CallPercentiles[k + 1] = CallPercentiles[k]
    /\ \E k \in 1..(Len(CallPercentiles) - 1) : CallPercentiles[k + 1] < CallPercentiles[k]
    /\ Len(Rectangles) >= 1

AllIdentical(p) == \A j, k \in DOMAIN p : p[j] = p[k]

OneGrayMarker ==
    /\ Len(Rectangles) = 1
    /\ Rectangles[1].left = 10 * CallPercentiles[1] - 5
    /\ Rectangles[1].left + Rectangles[1].width = 10 * CallPercentiles[1] + 5
    /\ Rectangles[1].color = Named(light_gray)
    /\ Rectangles[1].y = call.idx
    /\ Len(Texts) = 1
    /\ Texts[1].s = no_variation
    /\ Texts[1].x > Rectangles[1].left + Rectangles[1].width
    /\ Texts[1].y = call.idx
    /\ Len(ax) = 2

\* C2 (as stated): a record whose flag is true gives exactly one gray rectangle
\* over [value - 0.5, value + 0.5] and one "no variation" text to its right,
\* for 1 to 6 identical present values.
C2_Original ==
    (pc = "done" /\ HasNoVariation(call.row) /\ Len(CallPercentiles) >= 1
       /\ AllIdentical(CallPercentiles))
    => OneGrayMarker

\* C2 (amended): a record whose flag is true and that has at least 2 present
\* values gives exactly one gray rectangle over [value - 0.5, value + 0.5],
\* value being its first present value, and one "no variation" text to its
\* right, however many values (2 to 6) are present.
C2_OneGrayMarker ==
    (pc = "done" /\ HasNoVariation(call.row) /\ Len(CallPercentiles) >= 2)
    => OneGrayMarker

C2_Witness ==
    /\ pc = "done"
    /\ HasNoVariation(call.row)
    /\ Len(CallPercentiles) = 6
    /\ AllIdentical(CallPercentiles)
    /\ Len(Rectangles) = 1
    /\ Len(Texts) = 1

\* C3: a record with fewer than 2 present percentile values gives no rectangle
\* and no annotation, whatever its flag.
C3_NotDrawable ==
    (pc = "done" /\ Len(CallPercentiles) < 2) => ax = <<>>

C3_Witness ==
    /\ pc = "done"
    /\ Len(CallPercentiles) = 1
    /\ HasNoVariation(call.row)
    /\ ax = <<>>

----------------------------------------------------------------------------
(* Properties of _calculate_bar_heights (SpecHeights)                        *)

InBounds(h) == FracLe(<<MIN_BAR_HEIGHT, 1>>, h) /\ FracLe(h, <<MAX_BAR_HEIGHT, 1>>)

CallCounts == [i \in 1..Len(call.df.rows) |-> call.df.rows[i][ColCount]]

\* C4: one height per record, each within [MIN_BAR_HEIGHT, MAX_BAR_HEIGHT],
\* null counts included; all counts equal, a single record or no count column
\* give the exact midpoint everywhere.
C4_HeightsInBounds ==
    pc = "done" =>
        /\ Len(heights) = Len(call.df.rows)
        /\ \A i \in DOMAIN heights : InBounds(heights[i])
        /\ (\/ ColCount \notin call.df.columns
            \/ Len(call.df.rows) = 1
            \/ \A i, j \in DOMAIN CallCounts : CallCounts[i] = CallCounts[j])
           => \A i \in DOMAIN heights : FracEq(heights[i], Midpoint)

----------------------------------------------------------------------------
(* Properties of _add_diagnosis_shading (SpecShading)                        *)

IsSpan(a) == a.kind = "axhspan"
Spans == SelectSeq(ax, IsSpan)

\* the slot interval [start, end) of a band drawn from start - 0.2 to end - 0.2
SpanStart(a) == (a.ymin + 2) \div 10
SpanEnd(a) == (a.ymax + 2) \div 10

CallLabels == [i \in 1..Len(call.df.rows) |-> call.df.rows[i][ColDiag]]

Runs(labels) == {k \in DOMAIN labels : k = 1 \/ labels[k] # labels[k - 1]}

Partition(spans, n) ==
    /\ \A j \in DOMAIN spans :
          /\ SpanStart(spans[j]) < SpanEnd(spans[j])
          /\ spans[j].ymin = 10 * SpanStart(spans[j]) - 2
          /\ spans[j].ymax = 10 * SpanEnd(spans[j]) - 2
    /\ \A j \in 1..(Len(spans) - 1) : SpanStart(spans[j + 1]) = SpanEnd(spans[j])
    /\ (n > 0) => (Len(spans) > 0 /\ SpanStart(spans[1]) = 0 /\ SpanEnd(spans[Len(spans)]) = n)
    /\ (n = 0) => (Len(spans) = 0)

\* C5: the bands of a diagnosis sequence of n rows, sorted or not, are slot
\* intervals [start, end) that partition [0, n): the first starts at 0, each
\* next one starts where the previous one ends, the last ends at n, none is
\* empty, and there is one band per maximal run of equal adjacent values.
C5_BandsPartition ==
    (pc = "done" /\ ColDiag \in call.df.columns) =>
        /\ Partition(Spans, Len(call.df.rows))
        /\ Len(Spans) = Cardinality(Runs(CallLabels))

C5_Witness ==
    /\ pc = "done"
    /\ ColDiag \in call.df.columns
    /\ Len(call.df.rows) = 4
    /\ CallLabels[1] = CallLabels[2]
    /\ CallLabels[3] # CallLabels[2]
    /\ CallLabels[4] = CallLabels[1]
    /\ Len(Spans) = 3

----------------------------------------------------------------------------
(* Properties of create_comparative_chart (Spec)                             *)

Df == call.df
RowCount == Len(Df.rows)

IsError(m) == m.level = "error"
Errors == SelectSeq(msgs, IsError)

RecordKinds == {"barh", "text", "plot_line", "plot_point"}
BandKinds == {"axhspan", "axhline"}
CustomizeKinds == {"set_yticks", "set_xlabel", "set_title", "grid", "set_axisbelow"}

CountAt(i, Test(_)) == Len(SelectSeq(ax, LAMBDA a : a.kind \in RecordKinds /\ a.y = i /\ Test(a)))
CountKind(kind) == Len(SelectSeq(ax, LAMBDA a : a.kind = kind))

\* what a record is due, stated from its cells
ExpectedRectangles(row, cols) ==
    LET p == PresentValues(row, cols)
    IN  IF Len(p) < 2 THEN 0
        ELSE IF ColFlag \in DOMAIN row /\ row[ColFlag] THEN 1
        ELSE Cardinality(IncreasingPairs(p))

Has(row, col) == col \in DOMAIN row /\ row[col] # NaN

RecordDrawn(row, i) ==
    /\ CountAt(i, IsBar) = ExpectedRectangles(row, available_cols(Df))
    /\ CountAt(i, LAMBDA a : a.kind = "plot_line" /\ a.x = 10 * row[ColStd])
          = IF Has(row, ColStd) THEN 1 ELSE 0
    /\ CountAt(i, LAMBDA a : a.kind = "plot_line") = IF Has(row, ColStd) THEN 1 ELSE 0
    /\ CountAt(i, LAMBDA a : a.kind = "plot_point") = IF Has(row, ColOpt) THEN 1 ELSE 0
    /\ CountAt(i, LAMBDA a : a.kind = "text" /\ a.ha = "right")
          = IF ColDiag \in DOMAIN row THEN 1 ELSE 0
    /\ CountAt(i, LAMBDA a : a.kind = "text" /\ a.ha = "left" /\ a.s # no_variation)
          = IF ColCaso \in DOMAIN row \/ Has(row, ColCount) THEN 1 ELSE 0

AllRecordsDrawn == \A i \in 0..(RowCount - 1) : RecordDrawn(Df.rows[i + 1], i)

\* C6: with zero records the call ends in the empty result: nothing is drawn,
\* nothing is returned and only a warning is shown, never an error, whether or
\* not percentile columns exist.
C6_EmptyInput ==
    (RowCount = 0) =>
        /\ ax = <<>>
        /\ ret # "fig"
        /\ exc # "ValueError"
        /\ (exc = "none") => Errors = <<>>
        /\ (pc = "done" /\ exc = "none") =>
              /\ ret = "None"
              /\ Len(msgs) = 1
              /\ msgs[1].level = "warning"

C6_Witness ==
    /\ pc = "done"
    /\ RowCount = 0
    /\ Df.columns # {}
    /\ available_cols(Df) = <<>>
    /\ ret = "None"
    /\ Len(msgs) = 1
    /\ msgs[1].level = "warning"

\* C7: with a non-empty input that has none of the six percentile columns the
\* call returns the missing-columns error: one error message, nothing
\* returned and no draw instruction emitted at any point.
C7_MissingColumns ==
    (~DfEmpty(Df) /\ available_cols(Df) = <<>>) =>
        /\ ax = <<>>
        /\ ret # "fig"
        /\ exc # "ValueError"
        /\ (pc = "done" /\ exc = "none") =>
              /\ ret = "None"
              /\ msgs = <<[level |-> "error", text |-> "No se encontraron columnas de percentiles"]>>

C7_Witness ==
    /\ pc = "done"
    /\ RowCount = 2
    /\ ~DfEmpty(Df)
    /\ available_cols(Df) = <<>>
    /\ ret = "None"
    /\ Len(Errors) = 1
    /\ exc = "none"

Completed ==
    /\ ret = "fig"
    /\ exc = "none"
    /\ AllRecordsDrawn

ChartComplete ==
    /\ AllRecordsDrawn
    /\ (ColDiag \in Df.columns) => Len(Spans) = Cardinality(Runs([i \in 1..RowCount |-> Df.rows[i][ColDiag]]))
    /\ CountKind("legend") = 1
    /\ CountKind("invert_yaxis") = 1

\* C9: a call is all or nothing: a failure at any step is handled once, shows
\* exactly one error and returns None, whatever was drawn before; nothing is
\* returned before the end; a returned chart holds the instructions of every
\* record, all bands and the legend.
C9_AllOrNothing ==
    /\ ret \in {"pending", "None", "fig"}
    /\ (pc # "done") => ret = "pending"
    /\ (pc = "done" /\ exc # "none") => (ret = "None" /\ Len(Errors) = 1 /\ Len(msgs) = 1)
    /\ (ret = "fig") => (ChartComplete /\ msgs = <<>> /\ exc = "none")

C9_Witness ==
    /\ pc = "done"
    /\ exc = "unexpected"
    /\ CountKind("barh") >= 5
    /\ CountKind("legend") = 0
    /\ ret = "None"
    /\ Len(Errors) = 1

Stage(a) ==
    CASE a.kind = "set_xlim" -> 1
      [] a.kind \in RecordKinds -> 2
      [] a.kind = "invert_yaxis" -> 3
      [] a.kind \in BandKinds -> 4
      [] a.kind \in CustomizeKinds -> 5
      [] a.kind = "legend" -> 6

\* C10: the instructions come in the fixed order limits, records, axis
\* inversion, bands (with separators), customisation, legend: records are in
\* input order at slot = input index, all of record i before any of record
\* i + 1; bands and separators only after the last record instruction; the
\* axis is inverted once, after the loop; the legend is emitted once, after
\* the bands, before the chart is returned.
C10_FixedOrder ==
    /\ \A j, k \in DOMAIN ax : j < k => Stage(ax[j]) <= Stage(ax[k])
    /\ \A j, k \in DOMAIN ax :
          (j < k /\ ax[j].kind \in RecordKinds /\ ax[k].kind \in RecordKinds)
          => ax[j].y <= ax[k].y
    /\ \A j \in DOMAIN ax :
          ax[j].kind \in RecordKinds =>
             /\ ax[j].y \in 0..(RowCount - 1)
             /\ (ax[j].kind = "text" /\ ax[j].ha = "right")
                   => ax[j].s = Df.rows[ax[j].y + 1][ColDiag]
             /\ (ax[j].kind = "plot_point") => ax[j].x = 10 * Df.rows[ax[j].y + 1][ColOpt]
    /\ CountKind("invert_yaxis") <= 1
    /\ CountKind("legend") <= 1
    /\ CountKind("set_xlim") <= 1
    /\ (CountKind("invert_yaxis") = 1 \/ Spans # <<>>) =>
          \A i \in 0..(RowCount - 1) :
             CountAt(i, IsBar) = ExpectedRectangles(Df.rows[i + 1], available_cols(Df))
    /\ (ret = "fig") =>
          /\ CountKind("invert_yaxis") = 1
          /\ CountKind("legend") = 1
          /\ ax[Len(ax)].kind = "legend"
          /\ ax[1].kind = "set_xlim"

C10_Witness ==
    /\ pc = "done"
    /\ ret = "fig"
    /\ RowCount = 2
    /\ ColDiag \in Df.columns
    /\ Df.rows[1][ColDiag] # Df.rows[2][ColDiag]
    /\ Len(Spans) = 2
    /\ CountKind("axhline") = 1
    /\ CountAt(0, IsBar) >= 1
    /\ CountAt(1, IsBar) >= 1


----------------------------------------------------------------------------
(* Horizontal domain (Spec)                                                  *)

IsLimits(a) == a.kind = "set_xlim"

\* the present percentile cells of the whole table, read from its rows
PercentileCells ==
    {Df.rows[i][c] : i \in 1..RowCount, c \in Range(percentile_cols) \cap Df.columns} \ {NaN}

\* C11: the horizontal domain is [m - LEFT_MARGIN, M + RIGHT_MARGIN], m and M
\* being the least and the greatest present percentile value of all records;
\* it is set once, before any record instruction, and the standard and optimal
\* durations play no part in it.
C11_XDomain ==
    (ax # <<>>) =>
        /\ PercentileCells # {}
        /\ IsLimits(ax[1])
        /\ Len(SelectSeq(ax, IsLimits)) = 1
        /\ \E lo, hi \in PercentileCells :
              /\ \A v \in PercentileCells : lo <= v /\ v <= hi
              /\ ax[1].left = 10 * (lo - LEFT_MARGIN)
              /\ ax[1].right = 10 * (hi + RIGHT_MARGIN)
              /\ x_min = lo
              /\ x_max = hi

C11_Witness ==
    /\ pc = "done"
    /\ ret = "fig"
    /\ RowCount = 2
    /\ \E i \in 1..RowCount :
          /\ Has(Df.rows[i], ColOpt)
          /\ \A v \in PercentileCells : Df.rows[i][ColOpt] > v
    /\ \E i \in 1..RowCount : Has(Df.rows[i], ColStd)
    /\ \E i \in 1..RowCount : \E c \in Range(percentile_cols) \cap Df.columns : Df.rows[i][c] = NaN
    /\ CountKind("plot_point") >= 1


----------------------------------------------------------------------------
(* Reference markers (Spec)                                                  *)

FracAdd(f, g) == <<f[1] * g[2] + g[1] * f[2], f[2] * g[2]>>
FracHalf(f) == <<f[1], 2 * f[2]>>
Tenths(n) == <<10 * n, 1>>

PositionsAt(i, Test(_)) == {j \in DOMAIN ax : ax[j].kind \in RecordKinds /\ ax[j].y = i /\ Test(ax[j])}

IsLine(a) == a.kind = "plot_line"
IsPoint(a) == a.kind = "plot_point"

\* the line of slot i is at x and reaches half the row height on both sides
SpansRow(a, i, x, height) ==
    /\ a.x = 10 * x
    /\ IF IsNaNFrac(height)
       THEN IsNaNFrac(a.y0) /\ IsNaNFrac(a.y1)
       ELSE /\ FracEq(FracAdd(a.y0, FracHalf(height)), Tenths(i))
            /\ FracEq(a.y1, FracAdd(Tenths(i), FracHalf(height)))

MarkersOf(row, i) ==
    /\ Cardinality(PositionsAt(i, IsLine)) = IF Has(row, ColStd) THEN 1 ELSE 0
    /\ \A j \in PositionsAt(i, IsLine) : SpansRow(ax[j], i, row[ColStd], heights[i + 1])
    /\ Cardinality(PositionsAt(i, IsPoint)) = IF Has(row, ColOpt) THEN 1 ELSE 0
    /\ \A j \in PositionsAt(i, IsPoint) :
          /\ ax[j].x = 10 * row[ColOpt]
          /\ ax[j].y = i
          /\ \A k \in PositionsAt(i, IsBar) \cup PositionsAt(i, IsLine) : k < j

\* _add_inss_lines has run for record i
MarkersEmitted(i) ==
    \/ pc \in {"bars", "inss"} /\ i < idx
    \/ pc = "labels" /\ i <= idx
    \/ pc \in {"invert", "shading", "customize", "legend", "layout"}
    \/ ret = "fig"

\* C12: for each record, one standard line iff standard_duration is present,
\* at x = standard_duration from slot - height/2 to slot + height/2, and one
\* optimal point iff optimal_duration is present, at (optimal_duration, slot),
\* after the record's segments and standard line; a missing value gives no
\* instruction and no error; records without segments get their markers too.
C12_Markers ==
    /\ \A i \in 0..(RowCount - 1) : MarkersEmitted(i) => MarkersOf(Df.rows[i + 1], i)
    /\ (ret = "fig") => (exc = "none" /\ Errors = <<>>)

C12_Witness ==
    /\ pc = "done"
    /\ ret = "fig"
    /\ RowCount = 2
    /\ \E i \in 0..(RowCount - 1) :
          /\ CountAt(i, IsBar) = 0
          /\ Cardinality(PositionsAt(i, IsLine)) = 1
          /\ Cardinality(PositionsAt(i, IsPoint)) = 1
    /\ \E i \in 0..(RowCount - 1) :
          /\ CountAt(i, IsBar) >= 1
          /\ ~Has(Df.rows[i + 1], ColStd)
          /\ Cardinality(PositionsAt(i, IsLine)) = 0
    /\ \A i \in DOMAIN heights : ~IsNaNFrac(heights[i])


----------------------------------------------------------------------------
(* Bands and separators (SpecShading)                                        *)

IsSeparator(a) == a.kind = "axhline"
Separators == SelectSeq(ax, IsSeparator)

\* first slot of the j-th maximal run, and the slot after its last one
RunStart(labels, j) ==
    (CHOOSE k \in Runs(labels) : Cardinality({m \in Runs(labels) : m < k}) = j - 1) - 1
RunEnd(labels, j) ==
    IF j = Cardinality(Runs(labels)) THEN Len(labels) ELSE RunStart(labels, j + 1)

\* C13: run i (0-based) over slots [start, end) gives a band from start - 0.2
\* to end - 0.2, light gray for even i and white for odd i, and, except for
\* the first run, a separator at start - 0.2: r runs give r - 1 separators and
\* adjacent bands differ in colour.
C13_BandsAndSeparators ==
    (pc = "done" /\ ColDiag \in call.df.columns) =>
        LET r == Cardinality(Runs(CallLabels))
        IN  /\ Len(Spans) = r
            /\ \A j \in 1..Len(Spans) :
                  /\ Spans[j].ymin = 10 * RunStart(CallLabels, j) - 2
                  /\ Spans[j].ymax = 10 * RunEnd(CallLabels, j) - 2
                  /\ Spans[j].color = IF (j - 1) % 2 = 0 THEN Named(light_gray) ELSE Named("white")
            /\ \A j \in 1..(Len(Spans) - 1) : Spans[j].color # Spans[j + 1].color
            /\ Len(Separators) = IF r = 0 THEN 0 ELSE r - 1
            /\ \A j \in 1..Len(Separators) :
                  Separators[j].ypos = 10 * RunStart(CallLabels, j + 1) - 2
            /\ Len(ax) = Len(Spans) + Len(Separators)
            /\ \A k \in DOMAIN ax :
                  IsSeparator(ax[k]) => (k > 1 /\ IsSpan(ax[k - 1]) /\ ax[k - 1].ymin = ax[k].ypos)

C13_Witness ==
    /\ pc = "done"
    /\ ColDiag \in call.df.columns
    /\ Len(call.df.rows) = 4
    /\ Len(Spans) = 3
    /\ Len(Separators) = 2
    /\ Spans[2].color = Named("white")
    /\ Spans[3].color = Named(light_gray)
    /\ Spans[2].ymax - Spans[2].ymin = 20


----------------------------------------------------------------------------
(* Labels (SpecLabels)                                                       *)

IsRightLabel(a) == a.kind = "text" /\ a.ha = "left"
RightLabels == SelectSeq(ax, IsRightLabel)

CasePresent(row) == ColCaso \in DOMAIN row /\ row[ColCaso] \notin {NaS, ""}

\* C14: the right label is "{case_id} ({episode_count})" when both are
\* present, "{case_id}" when only the case id is, "({episode_count})" when
\* only the count is (case id null or missing), and is not emitted when
\* neither is; it is left-anchored at x_max + 5 on the row's slot.
C14_RightLabel ==
    (pc = "done") =>
        /\ (CasePresent(call.row) /\ Has(call.row, ColCount)) =>
              /\ Len(RightLabels) = 1
              /\ RightLabels[1].s
                    = call.row[ColCaso] \o " (" \o ToString(call.row[ColCount]) \o ")"
        /\ (CasePresent(call.row) /\ ~Has(call.row, ColCount)) =>
              (Len(RightLabels) = 1 /\ RightLabels[1].s = call.row[ColCaso])
        /\ (~CasePresent(call.row) /\ Has(call.row, ColCount)) =>
              /\ Len(RightLabels) = 1
              /\ RightLabels[1].s = "(" \o ToString(call.row[ColCount]) \o ")"
        /\ (~CasePresent(call.row) /\ ~Has(call.row, ColCount)) => Len(RightLabels) = 0
        /\ \A j \in DOMAIN RightLabels :
              RightLabels[j].x = 10 * (call.x_max + 5) /\ RightLabels[j].y = call.idx


----------------------------------------------------------------------------
(* The caller's table (Spec)                                                 *)

\* C15: the call only reads its input: no step of it, on any path (completed,
\* empty, missing columns, failed), changes the rows, columns, values or
\* order of the caller's table.
C15_InputUnchanged == [][call'.df = call.df]_vars

C15_Witness ==
    /\ pc = "done"
    /\ ret = "fig"
    /\ RowCount = 2
    /\ Df.columns = AllColumns
    /\ Len(Spans) = 2
    /\ CountKind("legend") = 1
    /\ Df.rows[1][ColDiag] = "D2"
    /\ Df.rows[2][ColDiag] = "D1"


----------------------------------------------------------------------------
(* Linear scale of the heights (SpecHeights)                                 *)

PresentCounts == Range(CallCounts) \ {NaN}

\* C17: when the counts are not all equal, the records with the least count
\* get exactly MIN_BAR_HEIGHT, those with the greatest count exactly
\* MAX_BAR_HEIGHT, a greater count gives a greater height and equal counts
\* give equal heights (counts 15, 8, 12: row 1 > row 3 > row 2).
C17_LinearScale ==
    (pc = "done" /\ ColCount \in call.df.columns /\ Cardinality(PresentCounts) >= 2) =>
        /\ \A i \in DOMAIN heights :
              /\ (CallCounts[i] = SetMin(PresentCounts))
                    => FracEq(heights[i], <<MIN_BAR_HEIGHT, 1>>)
              /\ (CallCounts[i] = SetMax(PresentCounts))
                    => FracEq(heights[i], <<MAX_BAR_HEIGHT, 1>>)
        /\ \A i, j \in DOMAIN heights :
              (CallCounts[i] # NaN /\ CallCounts[j] # NaN) =>
                 /\ (CallCounts[i] > CallCounts[j]) => FracLt(heights[j], heights[i])
                 /\ (CallCounts[i] = CallCounts[j]) => FracEq(heights[i], heights[j])

C17_Witness ==
    /\ pc = "done"
    /\ ColCount \in call.df.columns
    /\ CallCounts = <<3, 1, 2>>
    /\ FracLt(heights[3], heights[1])
    /\ FracLt(heights[2], heights[3])
    /\ FracEq(heights[3], Midpoint)

----------------------------------------------------------------------------
(* Colour of a segment (Spec)                                                *)

IsSegment(a) == a.kind = "barh" /\ a.color # Named(light_gray)

LocalValues(row) == Range(PresentValues(row, available_cols(Df)))

\* C18: a rectangle of the variation path over (v_i, v_i+1) has the colour at
\* position (mid - local_min) / (local_max - local_min), mid = (v_i + v_i+1) / 2,
\* local_min and local_max being taken over the present values of its own
\* record; the position is within [0, 1] and the other records of the input
\* (and the chart's domain) play no part in it.
C18_LocalColour ==
    \A j \in DOMAIN ax :
        IsSegment(ax[j]) =>
            LET local == LocalValues(Df.rows[ax[j].y + 1])
                lo == SetMin(local)
                hi == SetMax(local)
                pos == <<ax[j].color[2], ax[j].color[3]>>
            IN  /\ ax[j].color[1] = "RdYlGn_r"
                /\ hi > lo
                /\ FracEq(pos, <<ax[j].left + (ax[j].left + ax[j].width) - 2 * 10 * lo,
                                 2 * 10 * (hi - lo)>>)
                /\ FracLe(<<0, 1>>, pos)
                /\ FracLe(pos, <<1, 1>>)

C18_Witness ==
    /\ pc = "done"
    /\ ret = "fig"
    /\ RowCount = 2
    /\ CountAt(0, IsSegment) = 5
    /\ CountAt(1, IsSegment) = 5
    /\ LocalValues(Df.rows[1]) # LocalValues(Df.rows[2])
    /\ SetMin(LocalValues(Df.rows[1])) > x_min
    /\ SetMax(LocalValues(Df.rows[1])) < x_max


----------------------------------------------------------------------------
(* Data processor: src/data_processor.py with its configuration             *)

MaxFileRows == 2
MaxFilterRows == 2

MIN_EPISODIOS == 1
MAX_EPISODIOS == 1000
EDAD_ORDEN == <<"16-25", "26-35", "36-45", "46-55", "56-65">>

ColGenero == "Cod Genero"
ColEdad == "Gr Edad 10"
ColOcupac == "Gr Ocupac"
ColDifStd == "diferencia_estandar"
ColDifOpt == "diferencia_optima"

\* original name -> internal name
COLUMN_MAPPING ==
    << <<"Des Cie9 3dig", ColDiag>>, <<"Gr Ocupac", ColOcupac>>,
       <<"Cod Genero", ColGenero>>, <<"Gr Edad 10", ColEdad>>,
       <<"CASO", ColCaso>>, <<"Count (Id Episodio)", ColCount>>,
       <<"Durestd Inss min", ColStd>>, <<"Duropt Inss min", ColOpt>>,
       <<"Minmin", "Minmin">>, <<"P20min", "P20min">>, <<"P40min", "P40min">>,
       <<"P60min", "P60min">>, <<"P80min", "P80min">>, <<"P99min", "P99min">> >>

NUMERIC_COLUMNS == <<ColStd, ColOpt>> \o percentile_cols \o <<ColCount>>

OriginalColumns == {COLUMN_MAPPING[k][1] : k \in DOMAIN COLUMN_MAPPING}
InternalColumns == {COLUMN_MAPPING[k][2] : k \in DOMAIN COLUMN_MAPPING}

\* a cell holding text that is not a number
Text == -2000

\* pd.to_numeric(errors='coerce')
to_numeric(v) == IF v = Text THEN NaN ELSE v

\* comparisons with NaN are False
Ge(v, bound) == v # NaN /\ v >= bound
Le(v, bound) == v # NaN /\ v <= bound

validate_columns(df) == OriginalColumns \ df.columns = {}

Renamed(c) ==
    IF c \in OriginalColumns
    THEN COLUMN_MAPPING[CHOOSE k \in DOMAIN COLUMN_MAPPING : COLUMN_MAPPING[k][1] = c][2]
    ELSE c

rename_columns(df) ==
    LET cols == {Renamed(c) : c \in df.columns}
    IN  [columns |-> cols,
         rows |-> [i \in DOMAIN df.rows |->
                     [c \in cols |-> df.rows[i][CHOOSE o \in df.columns : Renamed(o) = c]]]]

Coerced(df) ==
    [df EXCEPT !.rows = [i \in DOMAIN df.rows |->
        [c \in df.columns |->
            IF c \in Range(NUMERIC_COLUMNS) THEN to_numeric(df.rows[i][c]) ELSE df.rows[i][c]]]]

\* dropna(subset=...) needs every column of the subset
DropnaRaises(df) == Range(NUMERIC_COLUMNS) \ df.columns # {}

HasNoNull(row) == \A c \in Range(NUMERIC_COLUMNS) : notna(row[c])

dropna(df) == [df EXCEPT !.rows = SelectSeq(df.rows, HasNoNull)]

duration_cols == <<ColStd, ColOpt>> \o percentile_cols

validate_ranges_CountOnly(df) ==
    LET InRange(row) ==
            (ColCount \in df.columns) =>
                Ge(row[ColCount], MIN_EPISODIOS) /\ Le(row[ColCount], MAX_EPISODIOS)
    IN  [df EXCEPT !.rows = SelectSeq(df.rows, InRange)]

validate_ranges(df) ==
    LET InRange(row) ==
            /\ \A c \in Range(duration_cols) \cap df.columns : Ge(row[c], 0)
            /\ (ColCount \in df.columns) =>
                  Ge(row[ColCount], MIN_EPISODIOS) /\ Le(row[ColCount], MAX_EPISODIOS)
    IN  [df EXCEPT !.rows = SelectSeq(df.rows, InRange)]

clean_data(df) == validate_ranges(dropna(Coerced(df)))

\* pd.Categorical(categories=edad_orden): any other value becomes null
Categorical(v) == IF v \in Range(EDAD_ORDEN) THEN v ELSE NaS

\* The texts of a column in alphabetical order; nulls sort last.
DiagOrder == [k \in 1..MaxDiag |-> "D" \o ToString(k)]
GeneroOrder == <<"F", "M">>

Rank(v, order) ==
    IF \E k \in DOMAIN order : order[k] = v
    THEN CHOOSE k \in DOMAIN order : order[k] = v
    ELSE Len(order) + 1

SortKey(row, cols) ==
    <<IF ColDiag \in cols THEN Rank(row[ColDiag], DiagOrder) ELSE 0,
      IF ColGenero \in cols THEN Rank(row[ColGenero], GeneroOrder) ELSE 0,
      IF ColEdad \in cols THEN Rank(row[ColEdad], EDAD_ORDEN) ELSE 0>>

KeyLt(a, b) ==
    \/ a[1] < b[1]
    \/ a[1] = b[1] /\ a[2] < b[2]
    \/ a[1] = b[1] /\ a[2] = b[2] /\ a[3] < b[3]

\* sort_values: rows with equal keys keep their order
RECURSIVE InsertRow(_, _, _)
InsertRow(sorted, row, cols) ==
    IF sorted = <<>> THEN <<row>>
    ELSE IF KeyLt(SortKey(row, cols), SortKey(Head(sorted), cols))
         THEN <<row>> \o sorted
         ELSE <<Head(sorted)>> \o InsertRow(Tail(sorted), row, cols)

RECURSIVE sort_values(_, _)
sort_values(rows, cols) ==
    IF rows = <<>> THEN <<>>
    ELSE InsertRow(sort_values(SubSeq(rows, 1, Len(rows) - 1), cols), rows[Len(rows)], cols)

sort_data(df) ==
    LET aged == [i \in DOMAIN df.rows |->
                    [c \in df.columns |->
                        IF c = ColEdad THEN Categorical(df.rows[i][c]) ELSE df.rows[i][c]]]
    IN  [df EXCEPT !.rows = sort_values(aged, df.columns)]

\* nunique(axis=1): the number of distinct present values
nunique(row, cols) == Cardinality({row[c] : c \in cols} \ {NaN})

PercentilesEqual_NoneDiffers(row, cols) == nunique(row, cols) <= 1

PercentilesEqual(row, cols) == nunique(row, cols) = 1

calculate_additional_fields(df) ==
    LET pcs == Range(percentile_cols) \cap df.columns
        withFlag == pcs # {}
        withStd == {ColStd, "P60min"} \subseteq df.columns
        withOpt == {ColOpt, "P60min"} \subseteq df.columns
        cols == df.columns \cup (IF withFlag THEN {ColFlag} ELSE {})
                           \cup (IF withStd THEN {ColDifStd} ELSE {})
                           \cup (IF withOpt THEN {ColDifOpt} ELSE {})
    IN  [columns |-> cols,
         rows |-> [i \in DOMAIN df.rows |->
            [c \in cols |->
                CASE c = ColFlag /\ withFlag -> PercentilesEqual(df.rows[i], pcs)
                  [] c = ColDifStd /\ withStd -> Sub(df.rows[i][ColStd], df.rows[i]["P60min"])
                  [] c = ColDifOpt /\ withOpt -> Sub(df.rows[i][ColOpt], df.rows[i]["P60min"])
                  [] OTHER -> df.rows[i][c]]]]


InEpisodiosRange_Exclusive(v, episodios_range) ==
    Ge(v, episodios_range[1]) /\ Le(v, episodios_range[2] - 1)

InEpisodiosRange(v, episodios_range) ==
    Ge(v, episodios_range[1]) /\ Le(v, episodios_range[2])

\* indexing a column the table does not have raises KeyError
FilterRaises(df, diagnosticos, genero, edad_grupos) ==
    \/ diagnosticos # {} /\ ColDiag \notin df.columns
    \/ genero # "Todos" /\ ColGenero \notin df.columns
    \/ edad_grupos # {} /\ ColEdad \notin df.columns

apply_filters(df, diagnosticos, genero, edad_grupos, episodios_range) ==
    LET ByDiag(row) == row[ColDiag] \in diagnosticos
        ByGenero(row) == row[ColGenero] = genero
        ByEdad(row) == row[ColEdad] \in edad_grupos
        ByCount(row) == InEpisodiosRange(row[ColCount], episodios_range)
        copy == df.rows
        f1 == IF diagnosticos # {} THEN SelectSeq(copy, ByDiag) ELSE copy
        f2 == IF genero # "Todos" THEN SelectSeq(f1, ByGenero) ELSE f1
        f3 == IF edad_grupos # {} THEN SelectSeq(f2, ByEdad) ELSE f2
        f4 == IF ColCount \in df.columns THEN SelectSeq(f3, ByCount) ELSE f3
    IN  [columns |-> df.columns, rows |-> f4]

----------------------------------------------------------------------------
(* Inputs of the data processor *)

MkRecord(diag, genero, edad, count, std, opt, p) ==
    [c \in InternalColumns |->
        CASE c = ColDiag -> diag
          [] c = ColGenero -> genero
          [] c = ColEdad -> edad
          [] c = ColCount -> count
          [] c = ColStd -> std
          [] c = ColOpt -> opt
          [] c = ColOcupac -> "o1"
          [] c = ColCaso -> "c1"
          [] OTHER -> p[CHOOSE k \in 1..6 : percentile_cols[k] = c]]

\* the same record under the names of the spreadsheet
FileRow(rec) == [c \in OriginalColumns |-> rec[Renamed(c)]]

BaseRecord == MkRecord("D2", "M", "26-35", 1, 1, 1, <<1, 1, 1, 1, 1, 1>>)

\* one cell of the base record replaced: a null or a negative value in each
\* duration, text and zero in two of them, and the counts around the limits
CellVariants ==
    {[BaseRecord EXCEPT ![c] = v] : c \in Range(duration_cols), v \in {NaN, -1}}
    \cup {[BaseRecord EXCEPT ![c] = v] : c \in {ColStd, "P40min"}, v \in {Text, 0}}
    \cup {[BaseRecord EXCEPT ![ColCount] = v] :
             v \in {NaN, Text, 0, MIN_EPISODIOS, MAX_EPISODIOS, MAX_EPISODIOS + 1}}

KeyVariants ==
    { MkRecord("D1", "M", "36-45", 2, 3, 2, <<0, 1, 2, 3, 4, 5>>),
      MkRecord("D1", "F", "66-75", 2, 3, 2, <<2, 2, 2, 2, 2, 2>>),
      MkRecord(NaS, "F", "16-25", 3, 3, 2, <<0, 0, 1, 1, 2, 2>>) }

FileRecords == CellVariants \cup KeyVariants

Sheet(cols, recs) == MkDf(cols, [i \in DOMAIN recs |-> FileRow(recs[i])])

Files ==
    {Sheet(OriginalColumns, recs) : recs \in SeqsUpTo(FileRecords, MaxFileRows)}
    \cup {Sheet(OriginalColumns \ {c}, <<BaseRecord>>) : c \in {"CASO", "Minmin", "Des Cie9 3dig"}}
    \cup {Sheet(OriginalColumns \cup {"Notas"}, <<>>)}

\* tables handed to _clean_data directly
CleanInputs ==
    {MkDf(InternalColumns, <<rec>>) : rec \in CellVariants}
    \cup {MkDf(InternalColumns \ {c}, <<BaseRecord>>) : c \in {ColCount, "P20min", ColCaso}}

FieldColumnSets ==
    { InternalColumns,
      InternalColumns \ {"P60min"},
      InternalColumns \ Range(percentile_cols),
      {"Minmin", "P20min", ColStd} }

\* tables handed to _calculate_additional_fields directly
FieldInputs ==
    {MkDf(cols, <<MkRecord("D1", "M", "26-35", 1, std, 1, p)>>) :
        cols \in FieldColumnSets, std \in {NaN, 1}, p \in [1..6 -> Values]}
    \cup {MkDf(InternalColumns, recs) : recs \in SeqsUpTo(KeyVariants, MaxFileRows)}

FilterRecords ==
    { MkRecord("D1", "M", "26-35", 1, 1, 1, NoValues),
      MkRecord("D1", "F", "36-45", 2, 1, 1, NoValues),
      MkRecord("D2", "M", "36-45", 3, 1, 1, NoValues),
      MkRecord("D2", "F", "26-35", NaN, 1, 1, NoValues),
      MkRecord("D1", "M", NaS, 2, 1, 1, NoValues),
      MkRecord(NaS, "F", "26-35", 3, 1, 1, NoValues) }

FilterColumnSets ==
    { {ColDiag, ColGenero, ColEdad, ColCount},
      {ColDiag, ColGenero, ColEdad},
      {ColGenero, ColEdad, ColCount} }

FilterInputs ==
    {MkDf(cols, recs) : cols \in FilterColumnSets, recs \in SeqsUpTo(FilterRecords, MaxFilterRows)}


----------------------------------------------------------------------------
(* load_and_process_data, step by step on the table it works on (data);     *)
(* _clean_data and _calculate_additional_fields are also called directly.   *)

Load == "load_and_process_data"

InitProcessor ==
    /\ ax = <<>> /\ ret = "pending" /\ idx = 0 /\ heights = <<>>
    /\ x_min = NaN /\ x_max = NaN /\ msgs = <<>> /\ exc = "none"
    /\ \/ /\ \E file \in Files, readable \in BOOLEAN :
                call = [fn |-> Load, file |-> file, readable |-> readable]
          /\ pc = "call"
          /\ data = NoFrame
       \/ /\ call = [fn |-> "_clean_data"]
          /\ pc = "clean"
          /\ data \in CleanInputs
       \/ /\ call = [fn |-> "_calculate_additional_fields"]
          /\ pc = "fields"
          /\ data \in FieldInputs

\* except Exception of load_and_process_data; a direct call lets it through
Fails(kind) ==
    /\ pc' = "done"
    /\ exc' = kind
    /\ IF call.fn = Load
       THEN /\ msgs' = Append(msgs, [level |-> "error", text |-> "Error al procesar archivo"])
            /\ ret' = "None"
       ELSE UNCHANGED <<msgs, ret>>

\* the next step of the pipeline, or the return of a direct call
Then(next) ==
    IF call.fn = Load
    THEN pc' = next /\ UNCHANGED ret
    ELSE pc' = "done" /\ ret' = "df"

ReadExcel ==
    /\ call.fn = Load /\ pc = "call"
    /\ IF call.readable
       THEN /\ data' = call.file
            /\ pc' = "validate"
            /\ UNCHANGED <<msgs, ret, exc>>
       ELSE /\ Fails("unexpected")
            /\ UNCHANGED data
    /\ UNCHANGED <<call, ax, idx, heights, x_min, x_max>>

ValidateColumns ==
    /\ call.fn = Load /\ pc = "validate"
    /\ IF validate_columns(data)
       THEN /\ pc' = "rename"
            /\ UNCHANGED <<msgs, ret>>
       ELSE /\ msgs' = Append(msgs, [level |-> "error", text |-> "Columnas faltantes"])
            /\ ret' = "None"
            /\ pc' = "done"
    /\ UNCHANGED <<data, call, ax, idx, heights, x_min, x_max, exc>>

RenameColumns ==
    /\ call.fn = Load /\ pc = "rename"
    /\ data' = rename_columns(data)
    /\ pc' = "clean"
    /\ UNCHANGED <<call, ax, ret, idx, heights, x_min, x_max, msgs, exc>>

CleanData ==
    /\ call.fn \in {Load, "_clean_data"} /\ pc = "clean"
    /\ IF DropnaRaises(data)
       THEN /\ Fails("KeyError")
            /\ data' = Coerced(data)
       ELSE /\ data' = clean_data(data)
            /\ Then("sort")
            /\ UNCHANGED <<msgs, exc>>
    /\ UNCHANGED <<call, ax, idx, heights, x_min, x_max>>

SortData ==
    /\ call.fn = Load /\ pc = "sort"
    /\ data' = sort_data(data)
    /\ pc' = "fields"
    /\ UNCHANGED <<call, ax, ret, idx, heights, x_min, x_max, msgs, exc>>

CalculateAdditionalFields ==
    /\ call.fn \in {Load, "_calculate_additional_fields"} /\ pc = "fields"
    /\ data' = calculate_additional_fields(data)
    /\ Then("return")
    /\ UNCHANGED <<call, ax, idx, heights, x_min, x_max, msgs, exc>>

ReturnDf ==
    /\ call.fn = Load /\ pc = "return"
    /\ ret' = "df"
    /\ pc' = "done"
    /\ UNCHANGED <<data, call, ax, idx, heights, x_min, x_max, msgs, exc>>

NextProcessor ==
    \/ ReadExcel
    \/ ValidateColumns
    \/ RenameColumns
    \/ CleanData
    \/ SortData
    \/ CalculateAdditionalFields
    \/ ReturnDf

SpecProcessor == InitProcessor /\ [][NextProcessor]_vars

----------------------------------------------------------------------------
(* apply_filters on its own *)

EdadOptions == {"26-35", "36-45"}
EpisodiosRanges == (1..MaxCount) \X (1..MaxCount)

InitFilters ==
    /\ \E df \in FilterInputs, diagnosticos \in SUBSET {"D1", "D2"},
          genero \in {"Todos", "M", "F"}, edad_grupos \in SUBSET EdadOptions,
          episodios_range \in EpisodiosRanges :
          call = [fn |-> "apply_filters", df |-> df, diagnosticos |-> diagnosticos,
                  genero |-> genero, edad_grupos |-> edad_grupos,
                  episodios_range |-> episodios_range]
    /\ Idle

ApplyFilters ==
    /\ call.fn = "apply_filters" /\ pc = "call"
    /\ IF FilterRaises(call.df, call.diagnosticos, call.genero, call.edad_grupos)
       THEN /\ exc' = "KeyError"
            /\ UNCHANGED <<data, ret>>
       ELSE /\ data' = apply_filters(call.df, call.diagnosticos, call.genero,
                                     call.edad_grupos, call.episodios_range)
            /\ ret' = "df_filtered"
            /\ UNCHANGED exc
    /\ pc' = "done"
    /\ UNCHANGED <<call, ax, idx, heights, x_min, x_max, msgs>>

NextFilters == ApplyFilters

SpecFilters == InitFilters /\ [][NextFilters]_vars


----------------------------------------------------------------------------
(* Filtering (SpecFilters)                                                   *)

\* every active filter of the call accepts the row
Selected(row) ==
    /\ (call.diagnosticos # {}) => row[ColDiag] \in call.diagnosticos
    /\ (call.genero # "Todos") => row[ColGenero] = call.genero
    /\ (call.edad_grupos # {}) => row[ColEdad] \in call.edad_grupos
    /\ (ColCount \in call.df.columns) =>
          /\ row[ColCount] # NaN
          /\ call.episodios_range[1] <= row[ColCount]
          /\ row[ColCount] <= call.episodios_range[2]

SelectedIndexes == {i \in DOMAIN call.df.rows : Selected(call.df.rows[i])}

\* the k-th selected row of the input
NthSelected(k) ==
    call.df.rows[CHOOSE i \in SelectedIndexes :
                    Cardinality({j \in SelectedIndexes : j < i}) = k - 1]

\* C16: apply_filters returns exactly the rows of its input that every active
\* filter accepts (an empty diagnosis list, 'Todos' and an empty age list
\* disable their filter; the count must lie within [lo, hi], ends included),
\* in their original relative order, and leaves the input table as it was.
C16_ApplyFilters ==
    [][(call.fn = "apply_filters") =>
          /\ call'.df = call.df
          /\ (ret' = "df_filtered") =>
                /\ data'.columns = call.df.columns
                /\ Len(data'.rows) = Cardinality(SelectedIndexes)
                /\ \A k \in DOMAIN data'.rows : data'.rows[k] = NthSelected(k)]_vars

C16_Witness ==
    /\ call.fn = "apply_filters" /\ pc = "done" /\ ret = "df_filtered"
    /\ Len(call.df.rows) = 2
    /\ call.diagnosticos = {"D1", "D2"}
    /\ call.genero = "M"
    /\ call.edad_grupos = {"36-45"}
    /\ ColCount \in call.df.columns
    /\ call.episodios_range = <<2, 3>>
    /\ call.df.rows[2][ColCount] = 3
    /\ data.rows = <<call.df.rows[2]>>


----------------------------------------------------------------------------
(* The flag of a constant distribution (SpecProcessor)                       *)

PresentPercentiles(row) ==
    {row[c] : c \in Range(percentile_cols) \cap DOMAIN row} \ {NaN}

FlagOf(i) == data.rows[i][ColFlag]

Loaded == call.fn = Load /\ ret = "df"

\* C19 as stated: the flag is a boolean that is true exactly when all present
\* percentile values of the record are identical (which a record without any
\* present value satisfies), and a successful load carries the flag.
C19_Original ==
    /\ (ColFlag \in data.columns) =>
          \A i \in DOMAIN data.rows :
              /\ FlagOf(i) \in BOOLEAN
              /\ FlagOf(i) <=> (\A a, b \in PresentPercentiles(data.rows[i]) : a = b)
    /\ Loaded => ColFlag \in data.columns

\* C19: the flag computed by _calculate_additional_fields is a boolean that is
\* true exactly when the record has at least one present percentile value and
\* all its present percentile values are identical; every table returned by a
\* successful load_and_process_data carries the flag.
C19_FlagComputed ==
    /\ (ColFlag \in data.columns) =>
          \A i \in DOMAIN data.rows :
              /\ FlagOf(i) \in BOOLEAN
              /\ FlagOf(i) <=>
                    /\ PresentPercentiles(data.rows[i]) # {}
                    /\ \A a, b \in PresentPercentiles(data.rows[i]) : a = b
    /\ Loaded => ColFlag \in data.columns

C19_Witness ==
    /\ Loaded
    /\ Len(data.rows) = 2
    /\ FlagOf(1) # FlagOf(2)

----------------------------------------------------------------------------
(* Rows that survive the cleaning (SpecProcessor)                            *)

IsNumber(v) == v \notin {NaN, Text}

ValidRow(row) ==
    /\ \A c \in Range(NUMERIC_COLUMNS) : IsNumber(row[c])
    /\ \A c \in {ColStd, ColOpt} \cup Range(percentile_cols) : row[c] >= 0
    /\ row[ColCount] >= MIN_EPISODIOS
    /\ row[ColCount] <= MAX_EPISODIOS

Cleaned == pc = "clean" /\ pc' # "clean" /\ exc' = "none"

\* C20: the rows left by _clean_data / _validate_ranges are exactly the valid
\* rows of its input: no null (or text) in a numeric column, every duration
\* >= 0, the count within [MIN_EPISODIOS, MAX_EPISODIOS]; a row violating one
\* of these is dropped and the valid rows are kept as they were.
C20_ValidRows ==
    [][Cleaned =>
          /\ \A i \in DOMAIN data'.rows : ValidRow(data'.rows[i])
          /\ data'.rows = SelectSeq(data.rows, ValidRow)]_vars

C20_Witness ==
    /\ call.fn = Load /\ pc = "sort"
    /\ Len(call.file.rows) = 2
    /\ call.file.rows[1]["Count (Id Episodio)"] = MAX_EPISODIOS + 1
    /\ call.file.rows[2]["Count (Id Episodio)"] = MAX_EPISODIOS
    /\ Len(data.rows) = 1
    /\ data.rows[1][ColCount] = MAX_EPISODIOS


----------------------------------------------------------------------------
(* Tiling of a record's range (SpecBars)                                     *)

NonDecreasing(p) == \A k \in 1..(Len(p) - 1) : p[k] <= p[k + 1]

RightEdge(r) == r.left + r.width

RECURSIVE TotalWidth(_)
TotalWidth(rs) == IF rs = <<>> THEN 0 ELSE Head(rs).width + TotalWidth(Tail(rs))

\* C22: on the variation path, when the present percentile values do not
\* decrease by position, the rectangles tile the record's range: the first
\* starts at the first present value, each next one starts where the previous
\* one ends, the last ends at the last present value, the widths add up to
\* (last - first) and there are (distinct present values - 1) rectangles;
\* a missing percentile is bridged by the rectangle between its neighbours.
C22_Tiling ==
    (pc = "done" /\ ~HasNoVariation(call.row) /\ Len(CallPercentiles) >= 2
       /\ NonDecreasing(CallPercentiles))
    => LET n == Len(Rectangles)
           first == CallPercentiles[1]
           last == CallPercentiles[Len(CallPercentiles)]
       IN  /\ n = Cardinality(Range(CallPercentiles)) - 1
           /\ (n > 0) => /\ Rectangles[1].left = 10 * first
                         /\ RightEdge(Rectangles[n]) = 10 * last
           /\ \A k \in 1..(n - 1) : Rectangles[k + 1].left = RightEdge(Rectangles[k])
           /\ \A k \in 1..n : Rectangles[k].width > 0 /\ Rectangles[k].y = call.idx
           /\ TotalWidth(Rectangles) = 10 * (last - first)
           /\ Len(ax) = n

C22_Witness ==
    /\ pc = "done"
    /\ ~HasNoVariation(call.row)
    /\ CallPercentiles = <<1, 2, 3, 4, 5, 6>>
    /\ Len(Rectangles) = 5
    /\ TotalWidth(Rectangles) = 50

\* a missing middle percentile between two present neighbours
C22_Bridge ==
    /\ pc = "done"
    /\ ~HasNoVariation(call.row)
    /\ call.row["P40min"] = NaN
    /\ CallPercentiles = <<1, 2, 4, 5, 6>>
    /\ \E k \in DOMAIN Rectangles :
          Rectangles[k].left = 20 /\ RightEdge(Rectangles[k]) = 40


----------------------------------------------------------------------------
(* The marker follows the flag, not the values (SpecBars)                    *)

FlagAbsent == ColFlag \notin DOMAIN call.row
FlagTrue == ~FlagAbsent /\ call.row[ColFlag] = TRUE

\* C23: whether the gray marker is drawn depends on the precomputed flag only.
\* A record whose present percentiles are all equal but whose flag is false or
\* absent takes the variation path and gives no rectangle and no annotation;
\* a record whose flag is true and that has at least 2 present values gives
\* the single gray rectangle centred on its first present value and its
\* annotation, even when its values differ.
C23_FlagDecides ==
    pc = "done" =>
        /\ (~FlagTrue /\ AllIdentical(CallPercentiles)) => ax = <<>>
        /\ (FlagTrue /\ Len(CallPercentiles) >= 2) => OneGrayMarker

C23_Witness ==
    /\ pc = "done"
    /\ FlagAbsent
    /\ Len(CallPercentiles) = 6
    /\ AllIdentical(CallPercentiles)
    /\ ax = <<>>

\* the other half: a true flag over values that differ
C23_MarkerOverDifferentValues ==
    /\ pc = "done"
    /\ FlagTrue
    /\ CallPercentiles = <<1, 2, 3, 4, 5, 6>>
    /\ OneGrayMarker
    /\ Rectangles[1].left = 5


----------------------------------------------------------------------------
(* The run of the application: app.py main() loads the uploaded file,        *)
(* filters the table and display_dashboard() draws the chart of the result.  *)

MaxAppRows == 3

Main == "main"

\* the value of load_and_process_data(uploaded_file), NoFrame standing for None
load_and_process_data(file, readable) ==
    IF ~readable \/ ~validate_columns(file) \/ DropnaRaises(rename_columns(file))
    THEN NoFrame
    ELSE calculate_additional_fields(sort_data(clean_data(rename_columns(file))))

\* what a failing load shows before it returns None
LoadErrors(file, readable) ==
    IF readable /\ ~validate_columns(file)
    THEN <<[level |-> "error", text |-> "Columnas faltantes"]>>
    ELSE <<[level |-> "error", text |-> "Error al procesar archivo"]>>

AppRecords ==
    { MkRecord("D1", "M", "26-35", 1, 3, 2, <<0, 1, 2, 3, 4, 5>>),
      MkRecord("D2", "M", "36-45", 2, 3, 2, <<1, 1, 2, 2, 3, 3>>),
      MkRecord(NaS, "M", "26-35", 3, 1, 1, <<2, 2, 2, 2, 2, 2>>),
      MkRecord("D1", "F", "36-45", 2, 3, 2, <<0, 1, 2, 3, 4, 5>>) }

AppFiles == {Sheet(OriginalColumns, recs) : recs \in SeqsUpTo(AppRecords, MaxAppRows)}

AppFilters ==
    {[diagnosticos |-> d, genero |-> g, edad_grupos |-> e, episodios_range |-> r] :
        d \in {{}, {"D1", "D2"}}, g \in {"Todos"}, e \in {{}, {"26-35"}},
        r \in {<<1, 3>>, <<2, 3>>}}

InitApp ==
    /\ \E file \in AppFiles, readable \in BOOLEAN, filters \in AppFilters :
          call = [fn |-> Main, file |-> file, readable |-> readable, filters |-> filters]
    /\ ax = <<>> /\ ret = "pending" /\ idx = 0 /\ heights = <<>>
    /\ x_min = NaN /\ x_max = NaN /\ msgs = <<>> /\ exc = "none"
    /\ data = NoFrame
    /\ pc = "upload"

AppLoad ==
    /\ call.fn = Main /\ pc = "upload"
    /\ LET df == load_and_process_data(call.file, call.readable)
       IN  IF df = NoFrame
           THEN /\ msgs' = msgs \o LoadErrors(call.file, call.readable)
                             \o <<[level |-> "error", text |-> "Error al procesar el archivo"]>>
                /\ pc' = "done"
                /\ UNCHANGED data
           ELSE /\ data' = df
                /\ pc' = "filter"
                /\ UNCHANGED msgs
    /\ UNCHANGED <<call, ax, ret, idx, heights, x_min, x_max, exc>>

AppFilter ==
    /\ call.fn = Main /\ pc = "filter"
    /\ data' = apply_filters(data, call.filters.diagnosticos, call.filters.genero,
                             call.filters.edad_grupos, call.filters.episodios_range)
    /\ pc' = "display"
    /\ UNCHANGED <<call, ax, ret, idx, heights, x_min, x_max, msgs, exc>>

\* display_dashboard(df_filtered) calls create_comparative_chart(df)
AppDisplay ==
    /\ call.fn = Main /\ pc = "display"
    /\ IF DfEmpty(data)
       THEN /\ msgs' = Append(msgs, [level |-> "warning", text |-> "No hay datos con los filtros aplicados"])
            /\ pc' = "done"
            /\ UNCHANGED call
       ELSE /\ call' = [fn |-> Chart, df |-> data]
            /\ pc' = "call"
            /\ UNCHANGED msgs
    /\ UNCHANGED <<data, ax, ret, idx, heights, x_min, x_max, exc>>

NextApp ==
    \/ AppLoad
    \/ AppFilter
    \/ AppDisplay
    \/ Next

SpecApp == InitApp /\ [][NextApp]_vars


----------------------------------------------------------------------------
(* Bands of the chart of a loaded and filtered table (SpecApp)               *)

Charting == call.fn = Chart

ChartLabels == [i \in 1..Len(call.df.rows) |-> call.df.rows[i][ColDiag]]

\* rows of the same diagnosis are next to each other
Contiguous(labels) ==
    \A i, k \in DOMAIN labels :
        (i < k /\ labels[i] = labels[k]) => \A j \in i..k : labels[j] = labels[i]

\* the distinct diagnoses of the table, the null one counted as one of them
DistinctDiagnoses(labels) == Cardinality(Range(labels))

\* C21: in the chart of a table that was loaded by load_and_process_data and
\* then filtered by apply_filters, the rows of the same diagnosis are
\* contiguous and the number of bands drawn equals the number of distinct
\* diagnoses of the filtered table.
C21_BandPerDiagnosis ==
    Charting =>
        /\ Contiguous(ChartLabels)
        /\ (ret = "fig") => Len(Spans) = DistinctDiagnoses(ChartLabels)

\* the same, for the tables in which every record has a diagnosis
BandPerNamedDiagnosis ==
    (Charting /\ NaS \notin Range(ChartLabels)) =>
        /\ Contiguous(ChartLabels)
        /\ (ret = "fig") => Len(Spans) = DistinctDiagnoses(ChartLabels)

\* three records of two diagnoses in the order of the sort, one band for each
SortedBeforeCharting ==
    /\ Charting /\ ret = "fig"
    /\ Len(call.df.rows) = 3
    /\ ChartLabels = <<"D1", "D1", "D2">>
    /\ call.df.rows[1][ColGenero] = "F"
    /\ Len(Spans) = 2

\* two records without a diagnosis, one band each
NullDiagnosesApart ==
    /\ Charting /\ ret = "fig"
    /\ ChartLabels = <<NaS, NaS>>
    /\ Len(Spans) = 2


\* contiguity on its own holds with and without null diagnoses
DiagnosesContiguous == Charting => Contiguous(ChartLabels)

====
